---- MODULE Spec2Model ----
(***************************************************************************)
(* gcodeopt: reorder the pen-down runs of a gcode file with a routing      *)
(* solver.  gcodeopt.py builds the node list (every run forwards and       *)
(* reversed); cvrp.py builds the distance matrix, registers one            *)
(* disjunction per forward/reverse pair, solves, walks the solved route    *)
(* and writes the runs in the solved order.                                *)
(*                                                                         *)
(* Python lists are modelled as sequences, so the 0-based index i of the   *)
(* code is position i + 1 here; Cost(i, j) hides the shift for the matrix.*)
(***************************************************************************)
EXTENDS Integers, Sequences, FiniteSets

VARIABLES
    pc,                 \* position of the run in gcodeopt.py / cvrp.main
    nparts,             \* parts taken from the split_when iterator so far
    part,               \* the part the iterator has yielded, until the loop
                        \* body has dealt with it
    segments,           \* gcodeopt.segments, the node list
    distance_matrix,    \* data["distance_matrix"]
    initial_routes,     \* data["initial_routes"]
    disjunctions,       \* the disjunctions registered with the routing model
    solution,           \* what SolveFromAssignmentWithParameters returned
    index,              \* print_solution: the loop variable index
    indexes,            \* print_solution: the list indexes
    route_distance,     \* print_solution: route_distance
    dropped,            \* main: the set printed as "dropped nodes"
    output,             \* the segment numbers written to optimized.gcode
    exit_status         \* exit status of the process once it has ended

vars == <<pc, nparts, part, segments, distance_matrix, initial_routes, disjunctions,
          solution, index, indexes, route_distance, dropped, output,
          exit_status>>

\* ---------------------------------------------------------------- bounds

\* Number of parts the input file is split into (after the preamble).
MaxParts == 2
\* Number of gcode lines in one part.
MaxLines == 2
\* Coordinate values a gcode word may carry.
XCoord == {0, 2}
YCoord == {0, 3}

\* Python's None; a value v that is present is the one-element tuple <<v>>,
\* a position is the pair <<x, y>>.
None == <<>>

\* ------------------------------------------------------------ gcodeopt.py

\* One parsed line: the attributes .x and .y, each None or a number.
Lines == [x : {None} \cup {<<c>> : c \in XCoord},
          y : {None} \cup {<<c>> : c \in YCoord}]

\* One part yielded by split_when: a non-empty run of lines.
Parts == UNION {[1..n -> Lines] : n \in 1..MaxLines}

Reverse(s) == [k \in 1..Len(s) |-> s[Len(s) + 1 - k]]

\* The loop shared by Segment._startpos and Segment._endpos: x and y each
\* keep the first value met that is not None; the position is returned as
\* soon as both are set, and None when the lines run out.
RECURSIVE ScanPos(_, _, _, _)
ScanPos(lines, k, x, y) ==
    IF k > Len(lines) THEN None
    ELSE LET x1 == IF x = None THEN lines[k].x ELSE x
             y1 == IF y = None THEN lines[k].y ELSE y
         IN  IF x1 # None /\ y1 # None THEN <<x1[1], y1[1]>>
             ELSE ScanPos(lines, k + 1, x1, y1)

Segment_startpos(lines) == ScanPos(lines, 1, None, None)

Segment_endpos(lines) == ScanPos(Reverse(lines), 1, None, None)

\* Segment(lines), built from part number src of the input.  The lines
\* themselves are not kept: nothing below reads them but the file writer.
Segment(src, lines) ==
    [src |-> src,
     startpos |-> Segment_startpos(lines),
     endpos |-> Segment_endpos(lines)]

\* A node of the list: a Segment itself, or a ReversedSegment wrapping it.
Forward(seg) == [segment |-> seg, reversed |-> FALSE]

ReversedSegment(seg) == [segment |-> seg, reversed |-> TRUE]

\* Variant: the reversed twin reports the start of its segment as its own.
startpos_Unswapped(node) == node.segment.startpos

startpos(node) ==
    IF node.reversed THEN node.segment.endpos ELSE node.segment.startpos

endpos(node) ==
    IF node.reversed THEN node.segment.startpos ELSE node.segment.endpos

\* The body of "for segment in parts": a segment with both positions is
\* appended, followed by its reversed twin; any other part adds nothing.
AppendPart(segs, src, lines) ==
    LET seg == Segment(src, lines)
    IN  IF seg.startpos # None /\ seg.endpos # None
        THEN segs \o <<Forward(seg), ReversedSegment(seg)>>
        ELSE segs

\* distance(a, b) squared: the argument of math.sqrt.
SquaredDistance(a, b) ==
    (a[1] - b[1]) * (a[1] - b[1]) + (a[2] - b[2]) * (a[2] - b[2])

\* int(math.sqrt(n)) for a non-negative integer n small enough that the
\* double square root, truncated, is the integer square root: the first k,
\* stepping up from k, whose successor squared exceeds n.
RECURSIVE IntSqrt(_, _)
IntSqrt(n, k) == IF (k + 1) * (k + 1) > n THEN k ELSE IntSqrt(n, k + 1)

\* Variant: round() in place of int().
distance_Rounded(a, b) ==
    LET n == SquaredDistance(a, b)
        k == IntSqrt(n, 0)
    IN  IF 4 * n >= (2 * k + 1) * (2 * k + 1) THEN k + 1 ELSE k

\* int(gcodeopt.distance(a, b))
distance(a, b) == IntSqrt(SquaredDistance(a, b), 0)

\* --------------------------------------------------------------- cvrp.py

\* data["num_vehicles"], data["depot"], and the vehicle maximum travel
\* distance given to AddDimension.
NumVehicles == 1
Depot == 0
MaxRouteDistance == 60000

\* Variant: node 0 treated as a free depot, its row and column all zero.
MatrixEntry_SyntheticDepot(segs, i, j) ==
    IF i = j \/ i = Depot \/ j = Depot THEN 0
    ELSE distance(endpos(segs[i + 1]), startpos(segs[j + 1]))

\* One entry of the matrix: row i (from_segment), column j (to_segment).
MatrixEntry(segs, i, j) ==
    IF i = j THEN 0 ELSE distance(endpos(segs[i + 1]), startpos(segs[j + 1]))

\* data["distance_matrix"] of create_data_model.
DistanceMatrix(segs) ==
    [i1 \in 1..Len(segs) |->
        [j1 \in 1..Len(segs) |-> MatrixEntry(segs, i1 - 1, j1 - 1)]]

\* data["initial_routes"]: [list(range(1, len(matrix)))]
InitialRoutes(matrix) == <<[k \in 1..(Len(matrix) - 1) |-> k]>>

\* len(data["distance_matrix"]): the number of nodes given to the manager.
N == Len(distance_matrix)

Cost(i, j) == distance_matrix[i + 1][j + 1]

\* RoutingIndexManager(N, 1, 0): with one vehicle and depot 0 the indices
\* 0..N-1 are the nodes themselves, index 0 is the start of the vehicle and
\* index N is its end, which is the depot again.
Start == Depot

End == N

IsEnd(i) == i = End

IndexToNode(i) == IF i < N THEN i ELSE Depot

\* distance_callback(from_index, to_index), also the arc cost evaluator of
\* the vehicle.
distance_callback(from_index, to_index) ==
    Cost(IndexToNode(from_index), IndexToNode(to_index))

\* Variant: range(2, len(matrix), 2), the pair of the depot left out.
DisjunctionStarts_SkipFirst == {i \in 2..(N - 1) : i % 2 = 0}

\* The values of i in range(0, len(matrix), 2).
DisjunctionStarts == {i \in 0..(N - 1) : i % 2 = 0}

\* Variant: the pairs taken one index too far, (i + 1, i + 2).
DisjunctionPairs_Shifted ==
    {{IndexToNode(i + 1), IndexToNode(i + 2)} : i \in {k \in 0..(N - 1) : k % 2 = 0}}

\* The index sets passed to AddDisjunction by the loop of main.
DisjunctionPairs ==
    {{IndexToNode(i), IndexToNode(i + 1)} : i \in DisjunctionStarts}

\* ------------------------------------------------- the routing solver
\* The solver is the library's; main only registers constraints with it.
\* An assignment gives every index 0..N-1 its NextVar value; an index left
\* out of the route points to itself.  The solver may return any assignment
\* that satisfies what main registered, or nothing.  A disjunction is taken
\* in its weakest reading, at most one active index (an unpenalised one would
\* ask for exactly one): every route the library can return is among those
\* allowed here.

\* The assignment of the route start -> r[1] -> ... -> r[Len(r)] -> end.
RouteToAssignment(r) ==
    LET path == <<Start>> \o r
        at(i) == CHOOSE k \in 1..Len(path) : path[k] = i
    IN  [i \in 0..(N - 1) |->
            IF \E k \in 1..Len(path) : path[k] = i
            THEN IF at(i) < Len(path) THEN path[at(i) + 1] ELSE End
            ELSE i]

\* ActiveVar: the start of the vehicle is always on its route.
Active(next, i) == i = Start \/ next[i] # i

\* The Distance dimension at the end of the route: start cumul zero, no
\* slack, every arc adding its transit.
RECURSIVE CumulFrom(_, _)
CumulFrom(next, i) ==
    IF IsEnd(i) THEN 0
    ELSE distance_callback(i, next[i]) + CumulFrom(next, next[i])

\* The constraints main registered: at most one active index in each
\* disjunction, an index in no disjunction is mandatory, and the Distance
\* dimension stays within the vehicle's maximum.
Satisfies(next) ==
    /\ \A d \in disjunctions : Cardinality({i \in d : Active(next, i)}) <= 1
    /\ \A i \in 0..(N - 1) :
          (\A d \in disjunctions : i \notin d) => Active(next, i)
    /\ CumulFrom(next, Start) <= MaxRouteDistance

\* The sequences of n nodes other than the depot, no node twice.
RECURSIVE RoutesOfLength(_)
RoutesOfLength(n) ==
    IF n = 0 THEN {<<>>}
    ELSE UNION {{Append(r, x) :
                    x \in (1..(N - 1)) \ {r[k] : k \in 1..Len(r)}} :
                r \in RoutesOfLength(n - 1)}

\* The routes a solution may follow between the start and the end.
Routes == UNION {RoutesOfLength(n) : n \in 0..(N - 1)}

\* ReadAssignmentFromRoutes(data["initial_routes"], True)
InitialAssignment == RouteToAssignment(initial_routes[1])

NoSolution == [ok |-> FALSE, next |-> <<>>]

NoFile == [written |-> FALSE, segments |-> <<>>]

\* --------------------------------------------------------------- actions

Init ==
    /\ pc = "parts"
    /\ nparts = 0
    /\ part = None
    /\ segments = <<>>
    /\ distance_matrix = <<>>
    /\ initial_routes = <<>>
    /\ disjunctions = {}
    /\ solution = NoSolution
    /\ index = 0
    /\ indexes = <<>>
    /\ route_distance = 0
    /\ dropped = {}
    /\ output = NoFile
    /\ exit_status = None

\* gcodeopt.py, "for segment in parts": the iterator yields the next part.
NextPart ==
    /\ pc = "parts"
    /\ nparts < MaxParts
    /\ part' \in Parts
    /\ pc' = "body"
    /\ UNCHANGED <<nparts, segments, distance_matrix, initial_routes,
                   disjunctions, solution, index, indexes, route_distance,
                   dropped, output, exit_status>>

\* The body of the loop, on the part just yielded.
LoopBody ==
    /\ pc = "body"
    /\ segments' = AppendPart(segments, nparts, part)
    /\ nparts' = nparts + 1
    /\ part' = None
    /\ pc' = "parts"
    /\ UNCHANGED <<distance_matrix, initial_routes, disjunctions, solution,
                   index, indexes, route_distance, dropped, output, exit_status>>

\* The parts are exhausted: the import of gcodeopt ends and main() begins.
EndOfParts ==
    /\ pc = "parts"
    /\ pc' = "main"
    /\ UNCHANGED <<part, nparts, segments, distance_matrix, initial_routes,
                   disjunctions, solution, index, indexes, route_distance,
                   dropped, output, exit_status>>

\* data = create_data_model()
CreateDataModel ==
    /\ pc = "main"
    /\ distance_matrix' = DistanceMatrix(segments)
    /\ initial_routes' = InitialRoutes(DistanceMatrix(segments))
    /\ pc' = "model"
    /\ UNCHANGED <<part, nparts, segments, disjunctions, solution, index, indexes,
                   route_distance, dropped, output, exit_status>>

\* With no node at all the depot 0 is not a node and the routing library
\* refuses to build the manager: the run ends abnormally.
ManagerRejected ==
    /\ pc = "model"
    /\ N = 0
    /\ pc' = "aborted"
    /\ exit_status' = <<1>>
    /\ UNCHANGED <<part, nparts, segments, distance_matrix, initial_routes,
                   disjunctions, solution, index, indexes, route_distance,
                   dropped, output>>

\* main, from the manager to the loop that adds the disjunctions.
BuildRoutingModel ==
    /\ pc = "model"
    /\ N > 0
    /\ disjunctions' = DisjunctionPairs
    /\ pc' = "solve"
    /\ UNCHANGED <<part, nparts, segments, distance_matrix, initial_routes, solution,
                   index, indexes, route_distance, dropped, output, exit_status>>

\* SolveFromAssignmentWithParameters returns an assignment: "if solution:"
\* is taken.
SolveFound ==
    /\ pc = "solve"
    /\ \E r \in Routes :
          /\ Satisfies(RouteToAssignment(r))
          /\ solution' = [ok |-> TRUE, next |-> RouteToAssignment(r)]
    /\ pc' = "print"
    /\ UNCHANGED <<part, nparts, segments, distance_matrix, initial_routes,
                   disjunctions, index, indexes, route_distance, dropped,
                   output, exit_status>>

\* SolveFromAssignmentWithParameters returns None: "if solution:" is not
\* taken, main returns and the interpreter exits.
SolveNone ==
    /\ pc = "solve"
    /\ solution' = NoSolution
    /\ pc' = "done"
    /\ exit_status' = <<0>>
    /\ UNCHANGED <<part, nparts, segments, distance_matrix, initial_routes,
                   disjunctions, index, indexes, route_distance, dropped,
                   output>>

\* print_solution up to the while loop (the only vehicle is vehicle 0).
PrintSolutionStart ==
    /\ pc = "print"
    /\ indexes' = <<>>
    /\ index' = Start
    /\ route_distance' = 0
    /\ pc' = "walk"
    /\ UNCHANGED <<part, nparts, segments, distance_matrix, initial_routes,
                   disjunctions, solution, dropped, output, exit_status>>

\* Variant: the node is appended after index has moved on.
Visited_AfterAdvance(i) == IndexToNode(solution.next[i])

\* What one turn of the while loop appends to indexes.
Visited(i) == IndexToNode(i)

\* Variant: the two indices given in the wrong order.
ArcCost_Swapped(previous_index, next_index) ==
    distance_callback(next_index, previous_index)

\* GetArcCostForVehicle(previous_index, index, vehicle_id)
ArcCost(previous_index, next_index) ==
    distance_callback(previous_index, next_index)

\* One turn of "while not routing.IsEnd(index)".
WalkStep ==
    /\ pc = "walk"
    /\ ~IsEnd(index)
    /\ indexes' = Append(indexes, Visited(index))
    /\ index' = solution.next[index]
    /\ route_distance' = route_distance + ArcCost(index, solution.next[index])
    /\ UNCHANGED <<part, pc, nparts, segments, distance_matrix, initial_routes,
                   disjunctions, solution, dropped, output, exit_status>>

\* Variant: the first entry of the returned list is not counted.
DroppedNodes_SkipFirst(returned) ==
    (0..(N - 1)) \ {returned[k] : k \in 2..Len(returned)}

\* The set main prints as "dropped nodes", given the list print_solution
\* returned.
DroppedNodes(returned) ==
    (0..(N - 1)) \ {returned[k] : k \in 1..Len(returned)}

\* The loop has reached the end index: print_solution returns indexes, main
\* prints the dropped nodes, writes the segments in the returned order and
\* returns.
PrintSolutionReturn ==
    /\ pc = "walk"
    /\ IsEnd(index)
    /\ dropped' = DroppedNodes(indexes)
    /\ output' = [written |-> TRUE, segments |-> indexes]
    /\ pc' = "done"
    /\ exit_status' = <<0>>
    /\ UNCHANGED <<part, nparts, segments, distance_matrix, initial_routes,
                   disjunctions, solution, index, indexes, route_distance>>

\* ------------------------------------------------------------ properties

\* Positions of the run at which main holds the data model, and at which the
\* routing model holds its disjunctions.
HasData == pc \in {"model", "solve", "print", "walk", "done"}

\* create_data_model has just returned.
DataBuilt == pc = "model"

HasModel == pc \in {"solve", "print", "walk", "done"}

\* main has run to its end on a solution.
Finished == pc = "done" /\ solution.ok

\* The nodes on the route of an assignment, read from the start along the
\* NextVar values to the end.
RECURSIVE RouteFrom(_, _)
RouteFrom(next, i) ==
    IF IsEnd(i) THEN {} ELSE {IndexToNode(i)} \cup RouteFrom(next, next[i])

RouteNodes == RouteFrom(solution.next, Start)

\* Nodes i and j are the two orientations of one segment of the input.
Twins(i, j) == i # j /\ segments[i + 1].segment = segments[j + 1].segment

ListSet(list) == {list[k] : k \in 1..Len(list)}

\* Sum of the matrix costs of the consecutive arcs of a node path.
RECURSIVE ArcSum(_)
ArcSum(path) ==
    IF Len(path) < 2 THEN 0
    ELSE Cost(path[1], path[2]) + ArcSum(Tail(path))

\* m is the floor of the square root of n.
IsFloorSqrt(m, n) == m >= 0 /\ m * m <= n /\ n < (m + 1) * (m + 1)

\* The part has an x word on some line and a y word on some line.
HasPosition(lines) ==
    /\ \E k \in 1..Len(lines) : lines[k].x # None
    /\ \E k \in 1..Len(lines) : lines[k].y # None

\* C1. Pair exclusivity: no route the solver returns under the disjunctions
\* of main (seen as main receives it), and no list of segments written
\* from it, holds both orientations of one segment; the pair of nodes 0 and
\* 1 included.
C1_PairExclusivity ==
    (solution.ok /\ pc \in {"print", "done"}) =>
        LET route == RouteNodes
            written == ListSet(output.segments)
        IN  \A i, j \in 0..(N - 1) :
                Twins(i, j) =>
                    /\ ~(i \in route /\ j \in route)
                    /\ ~(i \in written /\ j \in written)

C1_Witness ==
    /\ Finished
    /\ N = 4
    /\ 3 \in RouteNodes
    /\ output.segments = <<0, 3>>

\* C2. The initial route given to the solver (the depot, then the nodes
\* 1..N-1 in index order) visits every node and satisfies the constraints
\* registered by main.
C2_InitialRouteFeasible ==
    HasModel =>
        /\ \A i \in 0..(N - 1) : Active(InitialAssignment, i)
        /\ Satisfies(InitialAssignment)

\* C3. Every entry of the matrix is a non-negative integer, the diagonal is
\* zero, and entry (i, j) off the diagonal is the floor of the Euclidean
\* distance from the end of node i to the start of node j.
C3_MatrixIsFloorDistance ==
    DataBuilt =>
        /\ Len(distance_matrix) = Len(segments)
        /\ \A i, j \in 0..(N - 1) :
              /\ Len(distance_matrix[i + 1]) = N
              /\ Cost(i, j) \in Nat
              /\ i = j => Cost(i, j) = 0
              /\ i # j =>
                     IsFloorSqrt(Cost(i, j),
                                 SquaredDistance(endpos(segments[i + 1]),
                                                 startpos(segments[j + 1])))

\* An entry whose distance is not a whole number (squared distance 13).
C3_Witness ==
    /\ DataBuilt
    /\ N = 4
    /\ \E i, j \in 0..(N - 1) :
          /\ i # j
          /\ Cost(i, j) = 3
          /\ SquaredDistance(endpos(segments[i + 1]),
                             startpos(segments[j + 1])) = 13

C5_DepotZeroCost ==
    HasData /\ N > 0 =>
        \A j \in 0..(N - 1) : Cost(Depot, j) = 0 /\ Cost(j, Depot) = 0

\* C5 as amended. Node 0 is the forward orientation of the first part of the
\* input that has a position, and its row and column of the matrix hold the
\* floored distances from its end and to its start like any other node's.
C5_DepotIsFirstSegment ==
    HasData /\ N > 0 =>
        /\ ~segments[Depot + 1].reversed
        /\ segments[Depot + 1].segment.startpos # None
        /\ segments[Depot + 1].segment.endpos # None
        /\ \A j \in 0..(N - 1) :
              segments[Depot + 1].segment.src <= segments[j + 1].segment.src
        /\ \A j \in 1..(N - 1) :
              /\ IsFloorSqrt(Cost(Depot, j),
                             SquaredDistance(segments[Depot + 1].segment.endpos,
                                             startpos(segments[j + 1])))
              /\ IsFloorSqrt(Cost(j, Depot),
                             SquaredDistance(endpos(segments[j + 1]),
                                             segments[Depot + 1].segment.startpos))

C5_Witness ==
    /\ HasData
    /\ N = 4
    /\ Cost(Depot, 2) = 3
    /\ Cost(3, Depot) = 2

\* C6. When the solver returns no solution the process ends with a non-zero
\* exit status and writes no output file.
C6_NoSolutionExitsNonZero ==
    pc = "done" /\ ~solution.ok =>
        /\ exit_status # <<0>>
        /\ ~output.written

\* C7. At every step of the route walk the running total is the sum of the
\* matrix costs of the arcs walked so far, and the distance reported is the
\* sum over the whole route, the arc back to the depot included.
C7_CumulativeDistance ==
    /\ pc = "walk" =>
          route_distance = ArcSum(Append(indexes, IndexToNode(index)))
    /\ Finished =>
          /\ route_distance = ArcSum(Append(indexes, Depot))
          /\ route_distance = CumulFrom(solution.next, Start)

C7_Witness ==
    /\ Finished
    /\ Len(indexes) = 2
    /\ Cost(indexes[1], indexes[2]) > 0
    /\ Cost(indexes[2], Depot) > 0
    /\ Cost(indexes[1], indexes[2]) # Cost(indexes[2], indexes[1])

\* C8. The dropped set printed by main is the set of all node indices less
\* the nodes of the route: the two are disjoint and cover 0..N-1.
C8_DropConsistency ==
    Finished =>
        LET route == RouteNodes
        IN  /\ dropped = (0..(N - 1)) \ route
            /\ dropped \cap route = {}
            /\ dropped \cup route = 0..(N - 1)

C8_Witness ==
    /\ Finished
    /\ N = 4
    /\ dropped = {1, 2}

\* The list of nodes is made of (forward, reversed) pairs of one segment
\* each, the two end points swapped, in the order of the parts they came from.
PairedNodes ==
    /\ Len(segments) % 2 = 0
    /\ Len(segments) <= 2 * nparts
    /\ \A i \in 0..(Len(segments) - 1) :
          i % 2 = 0 =>
              /\ i + 1 < Len(segments)
              /\ ~segments[i + 1].reversed
              /\ segments[i + 2].reversed
              /\ Twins(i, i + 1)
              /\ startpos(segments[i + 1]) # None
              /\ endpos(segments[i + 1]) # None
              /\ startpos(segments[i + 2]) = endpos(segments[i + 1])
              /\ endpos(segments[i + 2]) = startpos(segments[i + 1])
              /\ segments[i + 1].segment.src < nparts
              /\ \A j \in 0..(Len(segments) - 1) :
                    (j % 2 = 0 /\ i < j) =>
                        segments[i + 1].segment.src < segments[j + 1].segment.src
    /\ HasModel =>
          disjunctions = {{i, i + 1} : i \in {k \in 0..(N - 1) : k % 2 = 0}}

\* What the loop body does with the part in hand: nothing to the list when
\* the part has no position, two nodes more at its end when it has.
BodyAddsPairOrNothing ==
    pc = "body" =>
        /\ ~HasPosition(part) => segments' = segments
        /\ HasPosition(part) =>
              /\ Len(segments') = Len(segments) + 2
              /\ SubSeq(segments', 1, Len(segments)) = segments
              /\ segments'[Len(segments) + 1].segment.src = nparts
              /\ segments'[Len(segments) + 2].segment.src = nparts

\* C9. Whatever parts have been read, a part without a position adds no
\* node and any other part adds its forward node at an even index and its
\* reversed twin right after it, with the two end points swapped; the node
\* count is even and every index i + 1 of a disjunction is the twin of i.
C9_NodesComeInPairs == []PairedNodes /\ [][BodyAddsPairOrNothing]_vars

\* Two parts read, the first without a position, the second with distinct
\* end points.
C9_Witness ==
    /\ pc = "parts"
    /\ nparts = 2
    /\ Len(segments) = 2
    /\ segments[1].segment.src = 1
    /\ startpos(segments[1]) # endpos(segments[1])

\* C10. Every route the solver returns starts at node 0 and leaves node 1
\* out: the first segment is written first and forwards, and node 1 is among
\* the dropped nodes.
C10_FirstSegmentFixed ==
    /\ solution.ok =>
          LET route == RouteNodes
          IN  /\ 0 \in route
              /\ 1 \notin route
              /\ ~segments[1].reversed
    /\ Finished =>
          /\ output.written
          /\ output.segments[1] = 0
          /\ 1 \notin ListSet(output.segments)
          /\ 1 \in dropped

C10_Witness ==
    /\ Finished
    /\ N = 4
    /\ Len(output.segments) = 2
    /\ 1 \in dropped

Next ==
    \/ NextPart
    \/ LoopBody
    \/ EndOfParts
    \/ CreateDataModel
    \/ ManagerRejected
    \/ BuildRoutingModel
    \/ SolveFound
    \/ SolveNone
    \/ PrintSolutionStart
    \/ WalkStep
    \/ PrintSolutionReturn

Spec == Init /\ [][Next]_vars

====
